---- MODULE Spec2Model ----
(***************************************************************************)
(* Bike Scenario Planner (bike_scenarios.py): the catalog build, the       *)
(* mapping-driven and interactive selection sessions, the aggregation and  *)
(* the scenario store, as a state machine over successive invocations of   *)
(* main().                                                                 *)
(*                                                                         *)
(* Text is a sequence of ASCII codes, so that str.lower, str.strip,        *)
(* str.isdigit, int(), float(), the substring test and Python's ordering   *)
(* of strings are computed, not assumed.  A Python dict is a sequence of   *)
(* [key, val] entries in insertion order.  Weights and prices are          *)
(* naturals: the program only adds them, always in the order of the picks  *)
(* dict, so exact arithmetic stands for the float sums over finite values. *)
(***************************************************************************)
EXTENDS Integers, Sequences, FiniteSets, TLC

VARIABLES partsCsv, scenDir, clock, lastWrite, pc, fault, parts, cats,
          mapping, last, preselect_objs, scenario_name, picks, cat_i, sel,
          filtered

vars == <<partsCsv, scenDir, clock, lastWrite, pc, fault, parts, cats,
          mapping, last, preselect_objs, scenario_name, picks, cat_i, sel,
          filtered>>

-----------------------------------------------------------------------------
(* Bounds of the model *)

\* rows of parts.csv
MaxRows == 2
\* calls of save_scenario (the clock that stamps modification times)
MaxSaves == 2
\* records handed to group_by_category in the function-level specification
MaxBuild == 3

-----------------------------------------------------------------------------
(* Python values *)

\* None, where the other values are records (a pick, a loaded scenario)
None == [none |-> TRUE]
\* None, where the other values are text (a csv cell DictReader did not find,
\* a key a mapping does not have): code 0 occurs in no text of the model
Missing == <<0>>

\* the truth value Python gives a text-or-None value
Truthy(v) == v # Missing /\ v # <<>>

\* str.lower() on ASCII text
Lower(s) == [i \in 1..Len(s) |-> IF s[i] \in 65..90 THEN s[i] + 32 ELSE s[i]]

\* a + " " + b
Join(a, b) == a \o <<32>> \o b

\* Python's < on str: lexicographic by code point, a proper prefix first
RECURSIVE StrLt(_, _)
StrLt(a, b) ==
    IF b = <<>> THEN FALSE
    ELSE IF a = <<>> THEN TRUE
    ELSE IF a[1] # b[1] THEN a[1] < b[1]
    ELSE StrLt(Tail(a), Tail(b))

\* q in s
Contains(q, s) ==
    \E i \in 0..(Len(s) - Len(q)) : SubSeq(s, i + 1, i + Len(q)) = q

\* str.strip(): leading and trailing blanks removed
RECURSIVE LStrip(_)
LStrip(s) == IF s # <<>> /\ s[1] = 32 THEN LStrip(Tail(s)) ELSE s
RECURSIVE RStrip(_)
RStrip(s) ==
    IF s # <<>> /\ s[Len(s)] = 32 THEN RStrip(SubSeq(s, 1, Len(s) - 1)) ELSE s
Strip(s) == RStrip(LStrip(s))

\* str.isdigit()
IsDigit(s) == s # <<>> /\ \A i \in 1..Len(s) : s[i] \in 48..57

\* int(s) for a text of digits
RECURSIVE ToInt(_)
ToInt(s) ==
    IF s = <<>> THEN 0 ELSE 10 * ToInt(SubSeq(s, 1, Len(s) - 1)) + (s[Len(s)] - 48)

\* float(s): the texts of the model are digits, digits followed by ".0" (what
\* csv writes for a float), or not a number at all
FloatOk(s) ==
    \/ IsDigit(s)
    \/ /\ Len(s) >= 3
       /\ IsDigit(SubSeq(s, 1, Len(s) - 2))
       /\ SubSeq(s, Len(s) - 1, Len(s)) = <<46, 48>>
FloatVal(s) == IF IsDigit(s) THEN ToInt(s) ELSE ToInt(SubSeq(s, 1, Len(s) - 2))

\* str(x) of a float with an integral value: "7.0"
RECURSIVE Digits(_)
Digits(n) == IF n < 10 THEN <<48 + n>> ELSE Digits(n \div 10) \o <<48 + (n % 10)>>
FloatStr(n) == Digits(n) \o <<46, 48>>

\* dict.get(k) on a dict of entries [key, val]
RECURSIVE DictGet(_, _, _)
DictGet(d, k, default) ==
    IF d = <<>> THEN default
    ELSE IF d[1].key = k THEN d[1].val
    ELSE DictGet(Tail(d), k, default)

Keys(d) == [i \in 1..Len(d) |-> d[i].key]
HasKey(d, k) == \E i \in 1..Len(d) : d[i].key = k

\* d[k] = v: the entry is replaced in place, a new key goes last
DictSet(d, k, v) ==
    IF HasKey(d, k)
    THEN [i \in 1..Len(d) |-> IF d[i].key = k THEN [key |-> k, val |-> v] ELSE d[i]]
    ELSE Append(d, [key |-> k, val |-> v])

\* sorted(keys): insertion of each key before the first greater one
RECURSIVE InsertStr(_, _)
InsertStr(s, k) ==
    IF s = <<>> THEN <<k>>
    ELSE IF StrLt(k, s[1]) THEN <<k>> \o s
    ELSE <<s[1]>> \o InsertStr(Tail(s), k)
RECURSIVE SortedStrs(_)
SortedStrs(s) ==
    IF s = <<>> THEN <<>> ELSE InsertStr(SortedStrs(SubSeq(s, 1, Len(s) - 1)), s[Len(s)])

\* the mutant of sorted_keys: the dict's own (insertion) order
keys_unsorted(d) == Keys(d)
\* sorted(cats.keys())
sorted_keys(d) == SortedStrs(Keys(d))

-----------------------------------------------------------------------------
(* Texts of the model *)

tFork == <<102, 111, 114, 107>>
tWheel == <<87, 104, 101, 101, 108>>
tA == <<65>>
ta == <<97>>
tB == <<66>>
tAb == <<65, 32, 98>>
tbc == <<98, 32, 99>>
tBC == <<66, 32, 67>>
tc == <<99>>
tAbc == <<65, 32, 98, 32, 99>>
taBC == <<97, 32, 66, 32, 67>>
t29 == <<50, 57>>
t27 == <<50, 55>>
tabc == <<97, 98, 99>>

-----------------------------------------------------------------------------
(* Catalog Model: group_by_category *)

\* a record of parts.csv as load_parts returns it; row is the position of the
\* dict in the list, that is, the identity of the Python object
Rec(row, c, b, m, v, w, p) ==
    [row |-> row, category |-> c, brand |-> b, model |-> m, variant |-> v,
     weight_g |-> w, price_sgd |-> p]

\* the mutant of sort_key: the model before the brand
sort_key_model_first(x) == <<x.model, x.brand>>
\* key=lambda x: (x["brand"], x["model"])
sort_key(x) == <<x.brand, x.model>>

\* Python's < on the key tuples
KeyLt(x, y) ==
    LET kx == sort_key(x)
        ky == sort_key(y)
    IN  StrLt(kx[1], ky[1]) \/ (kx[1] = ky[1] /\ StrLt(kx[2], ky[2]))

\* list.sort is stable: each record goes after the records that are not greater
RECURSIVE InsertRec(_, _)
InsertRec(s, x) ==
    IF s = <<>> THEN <<x>>
    ELSE IF KeyLt(x, s[1]) THEN <<x>> \o s
    ELSE <<s[1]>> \o InsertRec(Tail(s), x)
RECURSIVE SortRecs(_)
SortRecs(s) ==
    IF s = <<>> THEN <<>> ELSE InsertRec(SortRecs(SubSeq(s, 1, Len(s) - 1)), s[Len(s)])

\* for p in parts: cats.setdefault(p["category"], []).append(p)
RECURSIVE SetDefaultAppend(_, _)
SetDefaultAppend(d, ps) ==
    IF ps = <<>> THEN d
    ELSE LET p == ps[1]
         IN  SetDefaultAppend(
                 DictSet(d, p.category, Append(DictGet(d, p.category, <<>>), p)),
                 Tail(ps))

group_by_category(ps) ==
    LET grouped == SetDefaultAppend(<<>>, ps)
    IN  [i \in 1..Len(grouped) |->
            [key |-> grouped[i].key, val |-> SortRecs(grouped[i].val)]]

-----------------------------------------------------------------------------
(* Resolver: apply_scenario_mapping *)

\* the mutant of options_of: the options of every category
options_of_any(cs, cat) ==
    LET all[i \in 0..Len(cs)] == IF i = 0 THEN <<>> ELSE all[i - 1] \o cs[i].val
    IN  all[Len(cs)]
\* cats[cat]
options_of(cs, cat) == DictGet(cs, cat, <<>>)

\* the mutant of option_matches: the query is not lower-cased
option_matches_cased(o, want) ==
    Lower(o.model) = want \/ Lower(Join(o.brand, o.model)) = want
\* o["model"].lower() == want.lower()
\*   or (o["brand"]+" "+o["model"]).lower() == want.lower()
option_matches(o, want) ==
    Lower(o.model) = Lower(want) \/ Lower(Join(o.brand, o.model)) = Lower(want)

\* chosen = None; for o in options: if matches: chosen = o; break
RECURSIVE first_match(_, _)
first_match(options, want) ==
    IF options = <<>> THEN None
    ELSE IF option_matches(options[1], want) THEN options[1]
    ELSE first_match(Tail(options), want)

RECURSIVE MappingLoop(_, _, _, _)
MappingLoop(m, cs, ks, ps) ==
    IF ks = <<>> THEN ps
    ELSE LET cat == ks[1]
             want == DictGet(m, cat, Missing)
             chosen == IF ~Truthy(want) THEN None
                       ELSE first_match(options_of(cs, cat), want)
         IN  MappingLoop(m, cs, Tail(ks), DictSet(ps, cat, chosen))

apply_scenario_mapping(m, cs) == MappingLoop(m, cs, sorted_keys(cs), <<>>)

-----------------------------------------------------------------------------
(* Aggregator *)

\* sum(p[field] for p in picks.values() if p)
RECURSIVE SumWeight(_)
SumWeight(ps) ==
    IF ps = <<>> THEN 0
    ELSE (IF ps[1].val # None THEN ps[1].val.weight_g ELSE 0) + SumWeight(Tail(ps))
RECURSIVE SumPrice(_)
SumPrice(ps) ==
    IF ps = <<>> THEN 0
    ELSE (IF ps[1].val # None THEN ps[1].val.price_sgd ELSE 0) + SumPrice(Tail(ps))

summarize(ps) == <<SumWeight(ps), SumPrice(ps)>>

-----------------------------------------------------------------------------
(* The state between two invocations of the program *)

\* a local of main() that is not bound yet
Unset == [unset |-> TRUE]

RunLocalsInit ==
    /\ fault = "none"
    /\ cats = <<>>
    /\ mapping = <<>>
    /\ last = Unset
    /\ preselect_objs = <<>>
    /\ scenario_name = <<>>
    /\ picks = <<>>
    /\ cat_i = 0
    /\ sel = <<>>
    /\ filtered = <<>>

SeqsUpTo(S, n) == UNION {[1..k -> S] : k \in 0..n}

\* the list load_parts returns: each dict is its own object
WithRows(s) == [i \in 1..Len(s) |-> [s[i] EXCEPT !.row = i]]

-----------------------------------------------------------------------------
(* Function-level specification: group_by_category and                     *)
(* apply_scenario_mapping applied to record lists and mappings drawn from  *)
(* bounded sets                                                            *)

RecPool ==
    { Rec(0, tFork, tA, tbc, t29, 5, 2),
      Rec(0, tFork, tAb, tc, <<>>, 9, 0),
      Rec(0, tFork, ta, tB, t27, 7, 2),
      Rec(0, tFork, tA, tB, <<>>, 3, 1),
      Rec(0, tWheel, tA, tbc, t29, 4, 4),
      Rec(0, tWheel, ta, tbc, <<>>, 6, 1) }

CatPool == <<tFork, tWheel>>
QueryPool == {tbc, tBC, tAbc, taBC, tc, <<>>, Missing}

\* a mapping file: the keys it holds, in the order of the file
RECURSIVE MkMapping(_, _)
MkMapping(f, ks) ==
    IF ks = <<>> THEN <<>>
    ELSE (IF f[ks[1]] = Missing THEN <<>> ELSE <<[key |-> ks[1], val |-> f[ks[1]]]>>)
         \o MkMapping(f, Tail(ks))

Mappings == {MkMapping(f, CatPool) : f \in [{tFork, tWheel} -> QueryPool]}

InitFun ==
    /\ partsCsv = <<>>
    /\ scenDir = <<>>
    /\ clock = 0
    /\ lastWrite = None
    /\ pc = "input"
    /\ RunLocalsInit
    /\ parts \in {WithRows(s) : s \in SeqsUpTo(RecPool, MaxBuild)}

Build ==
    /\ pc = "input"
    /\ cats' = group_by_category(parts)
    /\ pc' = "built"
    /\ UNCHANGED <<partsCsv, scenDir, clock, lastWrite, fault, parts, mapping,
                   last, preselect_objs, scenario_name, picks, cat_i, sel,
                   filtered>>

Apply ==
    /\ pc = "built"
    /\ \E m \in Mappings :
          /\ mapping' = m
          /\ picks' = apply_scenario_mapping(m, cats)
    /\ pc' = "applied"
    /\ UNCHANGED <<partsCsv, scenDir, clock, lastWrite, fault, parts, cats,
                   last, preselect_objs, scenario_name, cat_i, sel, filtered>>

NextFun == Build \/ Apply

FunSpec == InitFun /\ [][NextFun]_vars

-----------------------------------------------------------------------------
(* parts.csv: load_parts and add_part_interactive *)

\* a line of parts.csv as csv.DictReader gives it: every cell a text, or
\* Missing where the line is shorter than the header
CsvRow(c, b, m, v, w, p) ==
    [category |-> c, brand |-> b, model |-> m, variant |-> v,
     weight_g |-> w, price_sgd |-> p]

\* float(cell or 0) raises ValueError
CellFails(cell) == Truthy(cell) /\ ~FloatOk(cell)
\* float(cell or 0)
CellFloat(cell) == IF Truthy(cell) THEN FloatVal(cell) ELSE 0

\* load_parts raises: no row's conversion is guarded
LoadFails(csv) ==
    \E i \in 1..Len(csv) : CellFails(csv[i].weight_g) \/ CellFails(csv[i].price_sgd)

load_parts(csv) ==
    [i \in 1..Len(csv) |->
        Rec(i, csv[i].category, csv[i].brand, csv[i].model, csv[i].variant,
            CellFloat(csv[i].weight_g), CellFloat(csv[i].price_sgd))]

\* try: val = float(val) / except: val = 0.0
AddFloat(text) == IF FloatOk(text) THEN FloatVal(text) ELSE 0

\* the row add_part_interactive writes for the lines typed at its prompts:
\* every line stripped, the two numbers written by csv as str(float)
add_part_row(inp) ==
    CsvRow(Strip(inp.category), Strip(inp.brand), Strip(inp.model),
           Strip(inp.variant), FloatStr(AddFloat(Strip(inp.weight_g))),
           FloatStr(AddFloat(Strip(inp.price_sgd))))

-----------------------------------------------------------------------------
(* Scenario Store: save_scenario and load_last_scenario *)

\* json.dump of a part: its fields, not the object
ToJson(r) ==
    [category |-> r.category, brand |-> r.brand, model |-> r.model,
     variant |-> r.variant, weight_g |-> r.weight_g, price_sgd |-> r.price_sgd]

\* the mutant of kept_picks: a part of weight 0 counts as no pick
kept_picks_nonzero(ps) ==
    SelectSeq(ps, LAMBDA e : e.val # None /\ e.val.weight_g # 0)
\* {k: v for k, v in picks.items() if v}
kept_picks(ps) == SelectSeq(ps, LAMBDA e : e.val # None)

scenario_data(name, ps, totals, now) ==
    [name |-> name,
     created |-> now,
     picks |-> [i \in 1..Len(kept_picks(ps)) |->
                  [key |-> kept_picks(ps)[i].key, val |-> ToJson(kept_picks(ps)[i].val)]],
     total_weight_g |-> totals[1],
     total_price_sgd |-> totals[2]]

\* open(SCEN_DIR/<name>.json, "w"): the file of that name is replaced
save_scenario(name, ps, totals) ==
    /\ clock < MaxSaves
    /\ clock' = clock + 1
    /\ LET data == scenario_data(name, ps, totals, clock + 1)
       IN  /\ scenDir' = {f \in scenDir : f.name # name}
                            \cup {[name |-> name, mtime |-> clock + 1, data |-> data]}
           /\ lastWrite' = data

\* glob("*.json"): the pattern does not match a file name that starts with "."
GlobJson(dir) == {f \in dir : f.name[1] # 46}

\* sorted(files, key=os.path.getmtime)[-1], or None
load_last_scenario ==
    LET files == GlobJson(scenDir)
    IN  IF files = {} THEN None
        ELSE (CHOOSE f \in files : \A g \in files : g.mtime <= f.mtime).data

-----------------------------------------------------------------------------
(* Selection Session *)

\* the mutant of preselect_hit: the stored copy is offered
preselect_hit_copy(list_opts, prefer) ==
    IF prefer = None THEN None
    ELSE IF \E j \in 1..Len(list_opts) :
               list_opts[j].brand = prefer.brand /\ list_opts[j].model = prefer.model
         THEN prefer
         ELSE None
\* hit = None; if prefer: for o in list_opts: if same brand and model: hit = o; break
RECURSIVE preselect_hit(_, _)
preselect_hit(list_opts, prefer) ==
    IF prefer = None \/ list_opts = <<>> THEN None
    ELSE IF list_opts[1].brand = prefer.brand /\ list_opts[1].model = prefer.model
         THEN list_opts[1]
         ELSE preselect_hit(Tail(list_opts), prefer)

\* preselect_objs: empty unless a last scenario with picks was loaded
make_preselect_objs(cs, lst) ==
    IF lst = Unset \/ lst = None THEN <<>>
    ELSE IF lst.picks = <<>> THEN <<>>
    ELSE [i \in 1..Len(cs) |->
            [key |-> cs[i].key,
             val |-> preselect_hit(cs[i].val, DictGet(lst.picks, cs[i].key, None))]]

\* {k: None for k in sorted(cats.keys())}
initial_picks(cs) ==
    [i \in 1..Len(cs) |-> [key |-> sorted_keys(cs)[i], val |-> None]]

\* the filter of search_and_choose
search_filter(options, q) ==
    SelectSeq(options,
              LAMBDA o : Contains(q, Lower(Join(Join(o.brand, o.model),
                                               IF Truthy(o.variant) THEN o.variant
                                               ELSE <<>>))))

\* main() without its "if not parts" test
no_parts_unchecked(ps) == FALSE
\* if not parts
no_parts(ps) == ps = <<>>

-----------------------------------------------------------------------------
(* Inputs: the files found and the lines typed *)

tScenario == <<83, 99, 101, 110, 97, 114, 105, 111>>
tDotH == <<46, 104>>
tx == <<120>>
ts == <<115>>
t1 == <<49>>
t2sp == <<32, 50, 32>>
t7 == <<55>>
t5 == <<53>>
t4 == <<52>>
tzz == <<122, 122>>
ty == <<121>>
tYsp == <<89, 32>>
tn == <<110>>

\* lines a parts.csv may hold before the program ever appends to it
rowFork == CsvRow(tFork, tA, tbc, t29, t5, <<>>)
rowWheel == CsvRow(tWheel, ta, tB, Missing, Missing, t4)
rowBad == CsvRow(tWheel, ta, tB, <<>>, tabc, t4)
RowPool == {rowFork, rowWheel, rowBad}

\* what is typed at the prompts of add_part_interactive
AddInputs ==
    { CsvRow(<<32>> \o tFork, ta, tBC, t27, t7, tx) }

\* names of scenario files, and what is typed at the name prompt
NamePool == {tScenario, tDotH}
NameInputs == {<<>>, tDotH}

\* the mapping files of the replay runs
RunMappings == {MkMapping(f, CatPool) : f \in [{tFork, tWheel} -> {tBC, tc, Missing}]}

\* lines typed at the prompts of choose_from_list and search_and_choose
ChoiceLines == {<<>>, ts, t1, t2sp, tx}
SearchTexts == {t29, tB, tzz}
PickLines == {<<>>, t1, t2sp, tx}
SaveAnswers == {ty, tYsp, tn, <<>>}

-----------------------------------------------------------------------------
(* main(): one invocation after the other *)

Init ==
    /\ partsCsv \in SeqsUpTo(RowPool, MaxRows)
    /\ scenDir = {}
    /\ clock = 0
    /\ lastWrite = None
    /\ pc = "idle"
    /\ parts = <<>>
    /\ RunLocalsInit

\* the category the loop of main() is at, and its options
CurCat == sorted_keys(cats)[cat_i]
CurOptions == options_of(cats, CurCat)
CurPreselect == DictGet(preselect_objs, CurCat, None)

\* --add-part: add_part_interactive appends one row and the run ends
AddPart ==
    /\ pc = "idle"
    /\ Len(partsCsv) < MaxRows
    /\ \E inp \in AddInputs : partsCsv' = Append(partsCsv, add_part_row(inp))
    /\ UNCHANGED <<scenDir, clock, lastWrite, pc, fault, parts, cats, mapping,
                   last, preselect_objs, scenario_name, picks, cat_i, sel,
                   filtered>>

\* between two runs the user takes the first part out of parts.csv
DropRow ==
    /\ pc = "idle"
    /\ partsCsv # <<>>
    /\ partsCsv' = Tail(partsCsv)
    /\ UNCHANGED <<scenDir, clock, lastWrite, pc, fault, parts, cats, mapping,
                   last, preselect_objs, scenario_name, picks, cat_i, sel,
                   filtered>>

\* parts = load_parts(PARTS_CSV) raises ValueError and the run dies
LoadPartsRaises ==
    /\ pc = "idle"
    /\ LoadFails(partsCsv)
    /\ fault' = "ValueError"
    /\ pc' = "done"
    /\ UNCHANGED <<partsCsv, scenDir, clock, lastWrite, parts, cats, mapping,
                   last, preselect_objs, scenario_name, picks, cat_i, sel,
                   filtered>>

\* parts = load_parts(PARTS_CSV); if not parts: return; cats = group_by_category(parts)
LoadParts ==
    /\ pc = "idle"
    /\ ~LoadFails(partsCsv)
    /\ parts' = load_parts(partsCsv)
    /\ IF no_parts(load_parts(partsCsv))
       THEN pc' = "done" /\ cats' = cats
       ELSE pc' = "ready" /\ cats' = group_by_category(load_parts(partsCsv))
    /\ UNCHANGED <<partsCsv, scenDir, clock, lastWrite, fault, mapping, last,
                   preselect_objs, scenario_name, picks, cat_i, sel, filtered>>

\* --scenario=<file> without --save: the picks and totals are printed
ScenarioRun ==
    /\ pc = "ready"
    /\ \E m \in RunMappings :
          /\ mapping' = m
          /\ picks' = apply_scenario_mapping(m, cats)
    /\ pc' = "done"
    /\ UNCHANGED <<partsCsv, scenDir, clock, lastWrite, fault, parts, cats,
                   last, preselect_objs, scenario_name, cat_i, sel, filtered>>

\* --scenario=<file> --save: the scenario is saved under the file's base name
ScenarioRunSave ==
    /\ pc = "ready"
    /\ \E m \in RunMappings, name \in NamePool :
          LET ps == apply_scenario_mapping(m, cats)
          IN  /\ mapping' = m
              /\ picks' = ps
              /\ save_scenario(name, ps, <<SumWeight(ps), SumPrice(ps)>>)
    /\ pc' = "done"
    /\ UNCHANGED <<partsCsv, fault, parts, cats, last, preselect_objs,
                   scenario_name, cat_i, sel, filtered>>

\* the interactive run up to its loop: --clone-last, the scenario name, the
\* preselected objects and the empty picks
StartSession ==
    /\ pc = "ready"
    /\ \E clone \in BOOLEAN, line \in NameInputs :
          LET lst == IF clone THEN load_last_scenario ELSE Unset
          IN  /\ last' = lst
              /\ scenario_name' = IF Strip(line) # <<>> THEN Strip(line) ELSE tScenario
              /\ preselect_objs' = make_preselect_objs(cats, lst)
    /\ picks' = initial_picks(cats)
    /\ cat_i' = 1
    /\ pc' = IF Len(cats) = 0 THEN "saveprompt" ELSE "session"
    /\ UNCHANGED <<partsCsv, scenDir, clock, lastWrite, fault, parts, cats,
                   mapping, sel, filtered>>

\* picks[cat] = choice; summarize(picks); the loop goes to the next category
Assign(choice) ==
    /\ picks' = DictSet(picks, CurCat, choice)
    /\ cat_i' = cat_i + 1
    /\ pc' = IF cat_i >= Len(cats) THEN "saveprompt" ELSE "session"

\* Enter at the prompt of choose_from_list: pick_for_category returns the
\* preselected part if there is one, and None if not
ChooseEnter ==
    /\ pc = "session"
    /\ \E line \in ChoiceLines :
          /\ Strip(line) = <<>>
          /\ sel' = Strip(line)
    /\ Assign(IF CurPreselect # None THEN CurPreselect ELSE None)
    /\ UNCHANGED <<partsCsv, scenDir, clock, lastWrite, fault, parts, cats,
                   mapping, last, preselect_objs, scenario_name, filtered>>

\* a number of the list
ChooseNumber ==
    /\ pc = "session"
    /\ \E line \in ChoiceLines :
          /\ IsDigit(Strip(line))
          /\ ToInt(Strip(line)) \in 1..Len(CurOptions)
          /\ sel' = Strip(line)
          /\ Assign(CurOptions[ToInt(Strip(line))])
    /\ UNCHANGED <<partsCsv, scenDir, clock, lastWrite, fault, parts, cats,
                   mapping, last, preselect_objs, scenario_name, filtered>>

\* anything else: "Invalid, try again."
ChooseInvalid ==
    /\ pc = "session"
    /\ \E line \in ChoiceLines :
          /\ Strip(line) # <<>>
          /\ Lower(Strip(line)) # ts
          /\ ~(IsDigit(Strip(line)) /\ ToInt(Strip(line)) \in 1..Len(CurOptions))
          /\ sel' = Strip(line)
    /\ UNCHANGED <<partsCsv, scenDir, clock, lastWrite, pc, fault, parts, cats,
                   mapping, last, preselect_objs, scenario_name, picks, cat_i,
                   filtered>>

\* "s": search_and_choose asks for the search text
ChooseSearch ==
    /\ pc = "session"
    /\ \E line \in ChoiceLines :
          /\ Lower(Strip(line)) = ts
          /\ sel' = Strip(line)
    /\ pc' = "search_text"
    /\ UNCHANGED <<partsCsv, scenDir, clock, lastWrite, fault, parts, cats,
                   mapping, last, preselect_objs, scenario_name, picks, cat_i,
                   filtered>>

\* the search text: no match sends pick_for_category back to its prompt
SearchText ==
    /\ pc = "search_text"
    /\ \E line \in SearchTexts :
          LET found == search_filter(CurOptions, Lower(Strip(line)))
          IN  /\ filtered' = found
              /\ pc' = IF found = <<>> THEN "session" ELSE "search_pick"
    /\ UNCHANGED <<partsCsv, scenDir, clock, lastWrite, fault, parts, cats,
                   mapping, last, preselect_objs, scenario_name, picks, cat_i,
                   sel>>

\* a number of the search results
SearchPick ==
    /\ pc = "search_pick"
    /\ \E line \in PickLines :
          /\ IsDigit(Strip(line))
          /\ ToInt(Strip(line)) \in 1..Len(filtered)
          /\ Assign(filtered[ToInt(Strip(line))])
    /\ filtered' = <<>>
    /\ UNCHANGED <<partsCsv, scenDir, clock, lastWrite, fault, parts, cats,
                   mapping, last, preselect_objs, scenario_name, sel>>

\* Enter at the results: cancelled, back to the prompt of the category
SearchCancel ==
    /\ pc = "search_pick"
    /\ \E line \in PickLines : Strip(line) = <<>>
    /\ filtered' = <<>>
    /\ pc' = "session"
    /\ UNCHANGED <<partsCsv, scenDir, clock, lastWrite, fault, parts, cats,
                   mapping, last, preselect_objs, scenario_name, picks, cat_i,
                   sel>>

\* anything else at the results: "Invalid."
SearchInvalid ==
    /\ pc = "search_pick"
    /\ \E line \in PickLines :
          /\ Strip(line) # <<>>
          /\ ~(IsDigit(Strip(line)) /\ ToInt(Strip(line)) \in 1..Len(filtered))
    /\ UNCHANGED vars

\* tot = summarize(picks); --auto-save, or "y" at "Save scenario? (y/N)"
SaveYes ==
    /\ pc = "saveprompt"
    /\ \E auto \in BOOLEAN, line \in SaveAnswers :
          auto \/ Lower(Strip(line)) = ty
    /\ save_scenario(scenario_name, picks, summarize(picks))
    /\ pc' = "done"
    /\ UNCHANGED <<partsCsv, fault, parts, cats, mapping, last, preselect_objs,
                   scenario_name, picks, cat_i, sel, filtered>>

\* any other answer: nothing is saved
SaveNo ==
    /\ pc = "saveprompt"
    /\ \E line \in SaveAnswers : Lower(Strip(line)) # ty
    /\ pc' = "done"
    /\ UNCHANGED <<partsCsv, scenDir, clock, lastWrite, fault, parts, cats,
                   mapping, last, preselect_objs, scenario_name, picks, cat_i,
                   sel, filtered>>

\* the process ends; the next invocation starts afresh
Exit ==
    /\ pc = "done"
    /\ pc' = "idle"
    /\ fault' = "none"
    /\ parts' = <<>>
    /\ cats' = <<>>
    /\ mapping' = <<>>
    /\ last' = Unset
    /\ preselect_objs' = <<>>
    /\ scenario_name' = <<>>
    /\ picks' = <<>>
    /\ cat_i' = 0
    /\ sel' = <<>>
    /\ filtered' = <<>>
    /\ UNCHANGED <<partsCsv, scenDir, clock, lastWrite>>

Next ==
    \/ AddPart
    \/ DropRow
    \/ LoadPartsRaises
    \/ LoadParts
    \/ ScenarioRun
    \/ ScenarioRunSave
    \/ StartSession
    \/ ChooseEnter
    \/ ChooseNumber
    \/ ChooseInvalid
    \/ ChooseSearch
    \/ SearchText
    \/ SearchPick
    \/ SearchCancel
    \/ SearchInvalid
    \/ SaveYes
    \/ SaveNo
    \/ Exit

Spec == Init /\ [][Next]_vars

-----------------------------------------------------------------------------
(* Claims on the functions *)

KeySet(d) == {d[i].key : i \in 1..Len(d)}

\* (brand, model) of x is smaller than that of y, case-sensitively
PairLt(x, y) ==
    StrLt(x.brand, y.brand) \/ (x.brand = y.brand /\ StrLt(x.model, y.model))

\* C8: for a record list with at least one record, the categories of the
\* built catalog are exactly the distinct category values of the records,
\* every record is in exactly one place of the catalog, under its own category,
\* and each option list ascends by (brand, model), records of equal (brand,
\* model) keeping their input order.
C8_CatalogBuild ==
    (pc \in {"built", "applied"} /\ parts # <<>>) =>
        /\ KeySet(cats) = {parts[i].category : i \in 1..Len(parts)}
        /\ \A i, j \in 1..Len(cats) : cats[i].key = cats[j].key => i = j
        /\ \A n \in 1..Len(parts) :
              Cardinality({<<i, j>> \in (1..Len(cats)) \X (1..Len(parts)) :
                              /\ j <= Len(cats[i].val)
                              /\ cats[i].val[j] = parts[n]}) = 1
        /\ \A i \in 1..Len(cats) :
              LET opts == cats[i].val
              IN  /\ \A j \in 1..Len(opts) : opts[j].category = cats[i].key
                  /\ \A a, b \in 1..Len(opts) :
                        a < b =>
                          /\ ~PairLt(opts[b], opts[a])
                          /\ (opts[a].brand = opts[b].brand
                              /\ opts[a].model = opts[b].model)
                                => opts[a].row < opts[b].row

\* C8 witness: a built catalog with a category of three options, two of them
\* with the same (brand, model), whose input order was not the sorted order
C8_Witness ==
    /\ pc = "built"
    /\ \E i \in 1..Len(cats) :
          LET opts == cats[i].val
          IN  /\ Len(opts) = 3
              /\ \E a, b \in 1..3 :
                    /\ a < b
                    /\ opts[a].brand = opts[b].brand
                    /\ opts[a].model = opts[b].model
              /\ \E a, b \in 1..3 : a < b /\ opts[a].row > opts[b].row

\* the positions of the options a query matches
MatchSet(opts, q) ==
    {j \in 1..Len(opts) :
        \/ Lower(opts[j].model) = Lower(q)
        \/ Lower(opts[j].brand \o <<32>> \o opts[j].model) = Lower(q)}

Least(S) == CHOOSE n \in S : \A k \in S : n <= k

\* C1: for every category of the catalog and every non-empty query, the pick
\* is the first record of the category, in option order, whose model or whose
\* brand + " " + model equals the query after lower-casing both sides, and
\* none if there is no such record; a query that differs only in letter case
\* resolves to the same pick.
C1_MappingResolution ==
    pc = "applied" =>
        \A i \in 1..Len(cats) :
            LET cat == cats[i].key
                opts == cats[i].val
                q == DictGet(mapping, cat, Missing)
                M == MatchSet(opts, q)
                pick == DictGet(picks, cat, Unset)
            IN  (q # Missing /\ q # <<>>) =>
                  /\ pick = IF M = {} THEN None ELSE opts[Least(M)]
                  /\ \A q2 \in QueryPool \ {Missing} :
                        Lower(q2) = Lower(q) => first_match(opts, q2) = pick

\* C1 witness: an upper-case query matches two options of a category, by
\* brand + " " + model, and the pick is the earlier of the two
C1_Witness ==
    /\ pc = "applied"
    /\ \E i \in 1..Len(cats) :
          LET opts == cats[i].val
              q == DictGet(mapping, cats[i].key, Missing)
          IN  /\ q = taBC
              /\ Cardinality(MatchSet(opts, q)) >= 2
              /\ \E j \in MatchSet(opts, q) : opts[j].model # tbc
              /\ DictGet(picks, cats[i].key, Unset) = opts[Least(MatchSet(opts, q))]

-----------------------------------------------------------------------------
(* The runs with the fairness their prompts have: input() returns at every   *)
(* prompt, and the chooser ends up answering the category prompt with Enter *)
(* or with a number of the list.  parts.csv is one of a few files and is    *)
(* not edited between the runs.                                             *)

FairCatalogs ==
    {<<>>, <<rowBad>>, <<rowFork, rowWheel>>, <<rowWheel, rowFork, rowFork>>}

InitFair == Init /\ partsCsv \in FairCatalogs

NextFair ==
    \/ LoadPartsRaises
    \/ LoadParts
    \/ ScenarioRun
    \/ ScenarioRunSave
    \/ StartSession
    \/ ChooseEnter
    \/ ChooseNumber
    \/ ChooseInvalid
    \/ ChooseSearch
    \/ SearchText
    \/ SearchPick
    \/ SearchCancel
    \/ SearchInvalid
    \/ SaveYes
    \/ SaveNo
    \/ Exit

FairSpec ==
    /\ InitFair
    /\ [][NextFair]_vars
    /\ WF_vars(SearchText)
    /\ WF_vars(SearchPick \/ SearchCancel)
    /\ SF_vars(ChooseEnter \/ ChooseNumber)

-----------------------------------------------------------------------------
(* Claims on the runs *)

InSession == {"session", "search_text", "search_pick"}

PickOf(ps, k) == DictGet(ps, k, Unset)

\* the options the catalog lists under a category
OptionsIn(cs, k) == (CHOOSE i \in 1..Len(cs) : cs[i].key = k)

\* the category that has n - 1 categories before it in the order of Python's
\* str comparison
CatAt(n) ==
    CHOOSE k \in KeySet(cats) :
        Cardinality({k2 \in KeySet(cats) : StrLt(k2, k)}) = n - 1

\* C2 as stated: the "skip" answer (Enter at "Choose # (or 's' to search,
\* Enter to skip)") makes the category's pick none, whether or not the
\* category has a preselected default.
C2_SkipGivesNone ==
    (pc \in {"session", "saveprompt"} /\ cat_i > 1 /\ sel = <<>>) =>
        PickOf(picks, CatAt(cat_i - 1)) = None

SumWeightOf(ps) ==
    LET w[i \in 0..Len(ps)] == IF i = 0 THEN 0 ELSE w[i - 1] + ps[i].val.weight_g
    IN  w[Len(ps)]
SumPriceOf(ps) ==
    LET w[i \in 0..Len(ps)] == IF i = 0 THEN 0 ELSE w[i - 1] + ps[i].val.price_sgd
    IN  w[Len(ps)]

\* C3: every persisted scenario stores as total_weight_g the sum of weight_g
\* over its own stored picks and as total_price_sgd the sum of price_sgd over
\* them.
C3_StoredTotals ==
    \A f \in scenDir :
        /\ f.data.total_weight_g = SumWeightOf(f.data.picks)
        /\ f.data.total_price_sgd = SumPriceOf(f.data.picks)

\* C3 witness: an interactive run has just saved a scenario that holds a pick
\* of weight 0 and a price, and leaves out a category without a pick
C3_Witness ==
    /\ pc = "done"
    /\ scenario_name # <<>>
    /\ \E f \in scenDir :
          /\ f.mtime = clock
          /\ f.name = scenario_name
          /\ Len(f.data.picks) < Len(picks)
          /\ \E i \in 1..Len(f.data.picks) :
                f.data.picks[i].val.weight_g = 0 /\ f.data.picks[i].val.price_sgd > 0

\* the pick the loaded scenario holds for a category
PriorPick(cat) ==
    IF last = Unset \/ last = None THEN None ELSE DictGet(last.picks, cat, None)

SamePair(opts, prior) ==
    IF prior = None THEN {}
    ELSE {j \in 1..Len(opts) :
            opts[j].brand = prior.brand /\ opts[j].model = prior.model}

C4_Defaults ==
    pc \in InSession \cup {"saveprompt"} =>
        \A i \in 1..Len(cats) :
            LET opts == cats[i].val
                M == SamePair(opts, PriorPick(cats[i].key))
            IN  DictGet(preselect_objs, cats[i].key, None)
                    = IF M = {} THEN None ELSE opts[Least(M)]

\* C4: the default of each category is the first record of the current
\* catalog's option list with the (brand, model) of the prior scenario's pick
\* for the category, compared exactly, and there is none when the prior
\* scenario has no pick for it or no record has that pair; the defaults do
\* not change once the session has started.
C4_Preselection ==
    /\ [](C4_Defaults)
    /\ [][(pc \in InSession /\ pc' \in InSession \cup {"saveprompt"})
            => preselect_objs' = preselect_objs]_vars

\* C4 witness: the session offers a record of the catalog as the default of one
\* category, and none for a category whose prior pick has a (brand, model)
\* that the catalog now holds in another letter case only
C4_Witness ==
    /\ pc = "session"
    /\ \E i, k \in 1..Len(cats) :
          LET d == DictGet(preselect_objs, cats[i].key, None)
              gone == PriorPick(cats[k].key)
          IN  /\ d # None
              /\ d \in {cats[i].val[j] : j \in 1..Len(cats[i].val)}
              /\ gone # None
              /\ DictGet(preselect_objs, cats[k].key, None) = None
              /\ \E j \in 1..Len(cats[k].val) :
                    /\ Lower(cats[k].val[j].brand) = Lower(gone.brand)
                    /\ Lower(cats[k].val[j].model) = Lower(gone.model)

C5_Step ==
    /\ (pc \notin InSession /\ pc' \in InSession) =>
          /\ cat_i' = 1
          /\ \A k \in KeySet(cats') : PickOf(picks', k) = None
    /\ pc \in InSession =>
          \/ cat_i' = cat_i /\ picks' = picks /\ pc' \in InSession
          \/ /\ cat_i' = cat_i + 1
             /\ cat_i <= Len(cats)
             /\ KeySet(picks') = KeySet(picks)
             /\ \A k \in KeySet(cats) \ {CatAt(cat_i)} : PickOf(picks', k) = PickOf(picks, k)
             /\ pc' = IF cat_i = Len(cats) THEN "saveprompt" ELSE "session"
    /\ pc = "saveprompt" => (picks' = picks /\ pc' = "done")

\* alphabetical order: the order of the letters, whatever their case
AlphaLt(a, b) == StrLt(Lower(a), Lower(b))

CatAtAlpha(n) ==
    CHOOSE k \in KeySet(cats) :
        Cardinality({k2 \in KeySet(cats) : AlphaLt(k2, k)}) = n - 1

\* C5 as stated: the session resolves the categories in ascending alphabetical
\* order, so its n-th assignment is to the alphabetically n-th category.
C5_AlphabeticalOrder ==
    [][(pc \in InSession /\ cat_i' = cat_i + 1) =>
          \A k \in KeySet(cats) \ {CatAtAlpha(cat_i)} :
              PickOf(picks', k) = PickOf(picks, k)]_vars

\* C5, amended: the order is that of Python's str comparison, by code point.
\* The session starts at the first category of that order, with no pick; a
\* step of the session either stays at its category and leaves the picks
\* alone, or assigns the pick of its category only and moves to the next one,
\* leaving the session after the last; no pick changes afterwards; and a
\* session that has started reaches its end.
C5_SessionOrder ==
    /\ [][C5_Step]_vars
    /\ (pc \in InSession) ~> (pc = "saveprompt")

\* C5 witness: a session over two categories that the catalog holds in another
\* order than the ascending one has ended with a pick for each
C5_Witness ==
    /\ pc = "saveprompt"
    /\ Len(cats) = 2
    /\ StrLt(cats[2].key, cats[1].key)
    /\ \A k \in KeySet(cats) : PickOf(picks, k) # None

\* C6: the keys of completed picks are exactly the categories of the catalog,
\* one entry each, and every value is none or a record of that category's
\* option list.
C6_CompletedPicks ==
    (pc = "saveprompt" \/ (pc = "done" /\ cats # <<>>)) =>
        /\ Len(picks) = Len(cats)
        /\ KeySet(picks) = KeySet(cats)
        /\ \A i \in 1..Len(picks) :
              \/ picks[i].val = None
              \/ LET opts == cats[OptionsIn(cats, picks[i].key)].val
                 IN  \E j \in 1..Len(opts) : opts[j] = picks[i].val

\* C6 witness: a replay run over two categories has ended with a pick for one
\* and none for the other
C6_Witness ==
    /\ pc = "done"
    /\ mapping # <<>>
    /\ Len(cats) = 2
    /\ \E i, j \in 1..Len(picks) : picks[i].val = None /\ picks[j].val # None

\* C7 as stated: load_last_scenario returns none if and only if no scenario is
\* persisted, and otherwise the content the most recent save wrote.
C7_LoadMostRecent ==
    (pc \in InSession \cup {"saveprompt"} /\ last # Unset) =>
        /\ (last = None) <=> (scenDir = {})
        /\ last # None => last = lastWrite

\* C9 as stated: a weight or price that cannot be parsed is loaded as zero,
\* like a missing or empty one, and no fault surfaces.
C9_LenientLoad ==
    pc \in {"ready", "done"} \cup InSession \cup {"saveprompt"} =>
        /\ fault = "none"
        /\ Len(parts) = Len(partsCsv)
        /\ \A i \in 1..Len(parts) :
              /\ ~FloatOk(partsCsv[i].weight_g) => parts[i].weight_g = 0
              /\ ~FloatOk(partsCsv[i].price_sgd) => parts[i].price_sgd = 0

\* C10 as stated: building a catalog from an empty record list fails with
\* EmptyCatalog.
C10_EmptyCatalogFails ==
    (pc \in {"built", "done"} /\ parts = <<>> /\ fault # "ValueError") =>
        fault = "EmptyCatalog"

\* C10, amended: a run that loads no record ends at once, without a catalog,
\* a session, a prompt or a change of the scenario store.
C10_EmptyCatalogStops ==
    /\ [][(pc = "idle" /\ partsCsv = <<>> /\ pc' # "idle") =>
            /\ pc' = "done"
            /\ cats' = <<>> /\ picks' = <<>> /\ cat_i' = 0
            /\ sel' = sel /\ scenario_name' = scenario_name
            /\ scenDir' = scenDir]_vars
    /\ [][(pc = "done" /\ partsCsv = <<>>) =>
            (pc' = "idle" /\ scenDir' = scenDir)]_vars

\* C10 witness: a run on a parts.csv without rows has ended
C10_Witness ==
    pc = "done" /\ partsCsv = <<>> /\ parts = <<>> /\ fault = "none"

====
